---- MODULE Spec2Model ----
(***************************************************************************)
(* Model of the transaction-processing pipeline of portfolio_insights:     *)
(* TransactionProcessor (load_data, clean_data, calculate_analytics, the   *)
(* three retrieval APIs) over a CSV source that the environment edits.     *)
(*                                                                         *)
(* Data representation                                                     *)
(*   text            a sequence of one-character strings                   *)
(*   text cell       [na, s]      na = missing (NaN/None), s = the text    *)
(*   numeric cell    [k, v]       raw: k in {"na","num","text"};           *)
(*                                after to_numeric: k in {"num","nan"}     *)
(*   timestamp cell  [k, d, t]    raw: k in {"na","exact","dateonly",      *)
(*                                "junk"}; parsed: k in {"ts","nat"};      *)
(*                                d = calendar day, t = time of day        *)
(*   frame           [cols, rows] rows carry their index label in idx and, *)
(*                                as provenance only, the CSV data line    *)
(*                                they were read from in line              *)
(*   readers         per reading thread, its place in the query it runs    *)
(*   app             the last call of the application layer and its result *)
(* pandas semantics are those of the object-dtype string columns the       *)
(* repository was written against (astype(str) turns NaN into "nan").      *)
(***************************************************************************)
EXTENDS Integers, Sequences, FiniteSets, TLC

VARIABLES source, df, cleaned_df, analytics, last, tie, readers, app

vars == <<source, df, cleaned_df, analytics, last, tie, readers, app>>

(* ------------------------------ bounds -------------------------------- *)
MaxRows == 2

(* ------------------------------- text --------------------------------- *)
LowerChars == <<"a", "b", "h", "n", "t", "u", "y">>
UpperChars == <<"A", "B", "H", "N", "T", "U", "Y">>

UpperChar(c) ==
    IF \E i \in 1..Len(LowerChars) : LowerChars[i] = c
    THEN UpperChars[CHOOSE i \in 1..Len(LowerChars) : LowerChars[i] = c]
    ELSE c

StrUpper(s) == [i \in 1..Len(s) |-> UpperChar(s[i])]

RECURSIVE LStrip(_)
LStrip(s) == IF s # <<>> /\ Head(s) = " " THEN LStrip(Tail(s)) ELSE s

RECURSIVE RStrip(_)
RStrip(s) ==
    IF s # <<>> /\ s[Len(s)] = " " THEN RStrip(SubSeq(s, 1, Len(s) - 1)) ELSE s

StrStrip(s) == RStrip(LStrip(s))

NA == [na |-> TRUE, s |-> <<>>]
Txt(s) == [na |-> FALSE, s |-> s]

(* Series.astype(str): a missing value becomes the text "nan". *)
AsTypeStr(c) == IF c.na THEN Txt(<<"n", "a", "n">>) ELSE c

(* .astype(str).str.strip().str.upper() on one cell *)
NormText(c) == Txt(StrUpper(StrStrip(AsTypeStr(c).s)))

(* str(key).strip().upper() on a query argument *)
NormKey(k) == StrUpper(StrStrip(k))

BUY == <<"B", "U", "Y">>
SELL == <<"S", "E", "L", "L">>

(* ---------------------------- numeric cells --------------------------- *)
NumNA == [k |-> "na", v |-> 0]
Num(v) == [k |-> "num", v |-> v]
NumText == [k |-> "text", v |-> 0]
NaN == [k |-> "nan", v |-> 0]

(* The floats beyond the finite ones: a cell reading "inf" is parsed as    *)
(* float infinity.                                                        *)
Inf == [k |-> "inf", v |-> 0]
NegInf == [k |-> "ninf", v |-> 0]

(* pd.to_numeric(errors="coerce") on one cell *)
ToNumeric(c) == IF c.k \in {"num", "inf"} THEN c ELSE NaN

(* --------------------------- timestamp cells -------------------------- *)
TsNA == [k |-> "na", d |-> 0, t |-> 0]
TsExact(d, t) == [k |-> "exact", d |-> d, t |-> t]
TsDateOnly(d) == [k |-> "dateonly", d |-> d, t |-> 0]
TsJunk == [k |-> "junk", d |-> 0, t |-> 0]
NaT == [k |-> "nat", d |-> 0, t |-> 0]
Ts(d, t) == [k |-> "ts", d |-> d, t |-> t]

(* pd.to_datetime(format="%Y-%m-%d %H:%M:%S", errors="coerce") on one cell *)
ToDatetimeStrict(c) == IF c.k = "exact" THEN Ts(c.d, c.t) ELSE NaT

(* What the lenient parser gives for a text it rejects: it raises. *)
ParseFail == [k |-> "raise", d |-> 0, t |-> 0]

(* Variant: a date-only bound stands for the whole day, up to the next     *)
(* midnight.                                                               *)
ToDatetimeLenientWholeDay(c) ==
    CASE c.k = "exact" -> Ts(c.d, c.t)
      [] c.k = "dateonly" -> Ts(c.d + 1, 0)
      [] c.k = "na" -> NaT
      [] OTHER -> ParseFail

(* pd.to_datetime(x, errors="raise") on a query bound: the lenient parser  *)
(* reads a date-only text as midnight and the empty text as NaT, and       *)
(* raises on any other text; ParseFail stands for the raise.               *)
ToDatetimeLenient(c) ==
    CASE c.k = "exact" -> Ts(c.d, c.t)
      [] c.k = "dateonly" -> Ts(c.d, 0)
      [] c.k = "na" -> NaT
      [] OTHER -> ParseFail

TsLT(a, b) == a.d < b.d \/ (a.d = b.d /\ a.t < b.t)
TsLE(a, b) == TsLT(a, b) \/ (a.d = b.d /\ a.t = b.t)

(* ------------------------------- frames ------------------------------- *)
REQUIRED_COLS == <<"timestamp", "ticker", "action", "quantity", "price", "trader_id">>
RequiredSet == {REQUIRED_COLS[i] : i \in 1..Len(REQUIRED_COLS)}

None == [none |-> TRUE]
Frame(cols, rows) == [none |-> FALSE, cols |-> cols, rows |-> rows]

(* The cell a row shows for a column the file does not have. *)
BlankCell(c) ==
    CASE c = "timestamp" -> TsNA
      [] c \in {"quantity", "price"} -> NumNA
      [] OTHER -> NA

Cell(r, c, cols) == IF c \in cols THEN r[c] ELSE BlankCell(c)

BlankMissing(r, cols) ==
    [timestamp |-> Cell(r, "timestamp", cols), ticker |-> Cell(r, "ticker", cols),
     action |-> Cell(r, "action", cols), quantity |-> Cell(r, "quantity", cols),
     price |-> Cell(r, "price", cols), trader_id |-> Cell(r, "trader_id", cols)]

(* pd.read_csv: the file's columns, its rows labelled 0..n-1 *)
ReadCsv(src) ==
    Frame(src.cols,
          [i \in 1..Len(src.rows) |->
              [idx |-> i - 1, line |-> i,
               timestamp |-> src.rows[i].timestamp,
               ticker |-> src.rows[i].ticker,
               action |-> src.rows[i].action,
               quantity |-> src.rows[i].quantity,
               price |-> src.rows[i].price,
               trader_id |-> src.rows[i].trader_id]])

MissingCols(frame) == SelectSeq(REQUIRED_COLS, LAMBDA c : c \notin frame.cols)

(* ------------------------------ cleaning ------------------------------ *)
(* steps 1-3: parse the timestamp, standardize the text, coerce numbers *)
ConvertRow(r) ==
    [r EXCEPT !.timestamp = ToDatetimeStrict(r.timestamp),
              !.ticker = NormText(r.ticker),
              !.action = NormText(r.action),
              !.trader_id = NormText(r.trader_id),
              !.quantity = ToNumeric(r.quantity),
              !.price = ToNumeric(r.price)]

ConvertRows(rows) == [i \in 1..Len(rows) |-> ConvertRow(rows[i])]

(* dropna(subset=[timestamp, ticker, action, quantity, price]) *)
HasCritical(r) ==
    /\ r.timestamp.k # "nat"
    /\ ~r.ticker.na
    /\ ~r.action.na
    /\ r.quantity.k # "nan"
    /\ r.price.k # "nan"

DropMissing(rows) == SelectSeq(rows, HasCritical)

(* df[df["action"].isin(["BUY", "SELL"])] *)
ValidAction(r) == r.action.s \in {BUY, SELL}

DropInvalidAction(rows) == SelectSeq(rows, ValidAction)

(* (quantity <= 0) | (price <= 0); a comparison with NaN is False *)
NonPositive(r) ==
    \/ (r.quantity.k = "num" /\ r.quantity.v <= 0)
    \/ (r.price.k = "num" /\ r.price.v <= 0)

(* Variant: only the quantity is checked. *)
DropNonPositiveQuantityOnly(rows) ==
    SelectSeq(rows, LAMBDA r : ~(r.quantity.k = "num" /\ r.quantity.v <= 0))

(* Variant: the non-positive filter gives up on a frame that still holds a *)
(* missing number and keeps none of its rows.                              *)
DropNonPositiveNeedsNumbers(rows) ==
    IF \E i \in 1..Len(rows) : rows[i].quantity.k = "nan" \/ rows[i].price.k = "nan"
    THEN <<>>
    ELSE SelectSeq(rows, LAMBDA r : ~NonPositive(r))

DropNonPositive(rows) == SelectSeq(rows, LAMBDA r : ~NonPositive(r))

(* total_value = quantity * price, date = timestamp.dt.date *)
Sign(a) == IF a.k = "inf" THEN 1 ELSE IF a.k = "ninf" THEN -1
           ELSE IF a.v > 0 THEN 1 ELSE IF a.v < 0 THEN -1 ELSE 0

Mul(a, b) ==
    IF a.k = "num" /\ b.k = "num" THEN Num(a.v * b.v)
    ELSE IF a.k \notin {"num", "inf", "ninf"} \/ b.k \notin {"num", "inf", "ninf"} THEN NaN
    ELSE IF Sign(a) * Sign(b) = 0 THEN NaN
    ELSE IF Sign(a) * Sign(b) > 0 THEN Inf ELSE NegInf

(* Variant: total_value takes the quantity alone. *)
DerivedRowQuantityOnly(r) ==
    [idx |-> r.idx, line |-> r.line, timestamp |-> r.timestamp, ticker |-> r.ticker,
     action |-> r.action, quantity |-> r.quantity, price |-> r.price,
     trader_id |-> r.trader_id,
     total_value |-> r.quantity,
     date |-> r.timestamp.d]

DerivedRow(r) ==
    [idx |-> r.idx, line |-> r.line, timestamp |-> r.timestamp, ticker |-> r.ticker,
     action |-> r.action, quantity |-> r.quantity, price |-> r.price,
     trader_id |-> r.trader_id,
     total_value |-> Mul(r.quantity, r.price),
     date |-> r.timestamp.d]

AddDerived(rows) == [i \in 1..Len(rows) |-> DerivedRow(rows[i])]

(* sort_values("timestamp"): ascending; the default sort kind is not      *)
(* stable, so rows with equal timestamps come out in the order the build  *)
(* gives: t = "keep" their input order, t = "rev" the reverse.            *)
InsertByTs(sorted, x, t) ==
    LET before == IF t = "keep"
                  THEN {i \in 1..Len(sorted) : TsLE(sorted[i].timestamp, x.timestamp)}
                  ELSE {i \in 1..Len(sorted) : TsLT(sorted[i].timestamp, x.timestamp)}
        pos == Cardinality(before)
    IN SubSeq(sorted, 1, pos) \o <<x>> \o SubSeq(sorted, pos + 1, Len(sorted))

RECURSIVE SortFrom(_, _, _, _)
SortFrom(rows, i, acc, t) ==
    IF i > Len(rows) THEN acc
    ELSE SortFrom(rows, i + 1, InsertByTs(acc, rows[i], t), t)

SortByTimestamp(rows, t) == SortFrom(rows, 1, <<>>, t)

(* Variant: the index labels are left as the filters and the sort put them. *)
ResetIndexSkipped(rows) == rows

(* reset_index(drop=True) *)
ResetIndex(rows) == [i \in 1..Len(rows) |-> [rows[i] EXCEPT !.idx = i - 1]]

(* clean_data on a frame holding the six columns *)
CleanRows(rows, t) ==
    ResetIndex(SortByTimestamp(
        AddDerived(DropNonPositive(DropInvalidAction(DropMissing(ConvertRows(rows))))), t))

CleanOf(frame, t) == Frame(frame.cols \cup {"total_value", "date"}, CleanRows(frame.rows, t))

(* The three drop steps of clean_data by name, and the three applied to    *)
(* the converted rows in a given order (order[1] first).                   *)
DropStep(step, rows) ==
    CASE step = "missing" -> DropMissing(rows)
      [] step = "action" -> DropInvalidAction(rows)
      [] step = "nonpositive" -> DropNonPositive(rows)

DropOrders ==
    {o \in [1..3 -> {"missing", "action", "nonpositive"}] :
        \A i \in 1..3, j \in 1..3 : i # j => o[i] # o[j]}

DropInOrder(rows, order) ==
    DropStep(order[3], DropStep(order[2], DropStep(order[1], rows)))

(* ------------------------------ analytics ----------------------------- *)
(* Text order is Python's: by code point, a proper prefix first. *)
CharOrder ==
    <<" ", "1", "2", "A", "B", "D", "E", "H", "L", "N", "O", "S", "T", "U", "Y",
      "a", "b", "h", "n", "t", "u", "y">>

CharRank(c) == CHOOSE i \in 1..Len(CharOrder) : CharOrder[i] = c

RECURSIVE TextLT(_, _)
TextLT(a, b) ==
    IF b = <<>> THEN FALSE
    ELSE IF a = <<>> THEN TRUE
    ELSE IF Head(a) = Head(b) THEN TextLT(Tail(a), Tail(b))
    ELSE CharRank(Head(a)) < CharRank(Head(b))

(* The group keys of a groupby, ascending: texts, and dates. *)
SortedTexts(S) ==
    [i \in 1..Cardinality(S) |->
        CHOOSE k \in S : Cardinality({j \in S : TextLT(j, k)}) = i - 1]

SortedDates(S) ==
    [i \in 1..Cardinality(S) |->
        CHOOSE k \in S : Cardinality({j \in S : j < k}) = i - 1]

RECURSIVE SumFrom(_, _, _)
SumFrom(rows, i, col) ==
    IF i > Len(rows) THEN 0 ELSE rows[i][col].v + SumFrom(rows, i + 1, col)

(* Series.sum() of a numeric column *)
SumCol(rows, col) == SumFrom(rows, 1, col)

RowsWhere(rows, col, key) == SelectSeq(rows, LAMBDA r : r[col].s = key)

TextKeys(rows, col) == {rows[i][col].s : i \in 1..Len(rows)}

(* Variant: the entries come out ascending by their sort keys. *)
SortAscending(entries, keys, t) ==
    LET n == Len(entries)
        rank(i) ==
            Cardinality({j \in 1..n : keys[j] < keys[i]})
            + Cardinality({j \in 1..n :
                  /\ keys[j] = keys[i]
                  /\ IF t = "keep" THEN j < i ELSE j > i})
    IN [r \in 1..n |-> entries[CHOOSE i \in 1..n : rank(i) = r - 1]]

(* sort_values(ascending=False): the entries descending by their sort keys *)
(* (keys[i] is the key of entries[i]), equal keys in the order the build's *)
(* sort gives (see SortByTimestamp).                                       *)
SortDesc(entries, keys, t) ==
    LET n == Len(entries)
        rank(i) ==
            Cardinality({j \in 1..n : keys[j] > keys[i]})
            + Cardinality({j \in 1..n :
                  /\ keys[j] = keys[i]
                  /\ IF t = "keep" THEN j < i ELSE j > i})
    IN [r \in 1..n |-> entries[CHOOSE i \in 1..n : rank(i) = r - 1]]

Vals(entries) == [i \in 1..Len(entries) |-> entries[i].val]

Counts(entries) == [i \in 1..Len(entries) |-> entries[i].transaction_count]

(* groupby("ticker")["total_value"].sum(): one entry per key, keys ascending *)
GroupSum(rows, col, valcol) ==
    LET keys == SortedTexts(TextKeys(rows, col))
    IN [i \in 1..Len(keys) |->
           [key |-> keys[i], val |-> SumCol(RowsWhere(rows, col, keys[i]), valcol)]]

(* Variant: the volume adds up shares instead of notional. *)
VolumeByTickerShares(rows, t) ==
    LET sums == GroupSum(rows, "ticker", "quantity")
    IN SortDesc(sums, Vals(sums), t)

VolumeByTicker(rows, t) ==
    LET sums == GroupSum(rows, "ticker", "total_value")
    IN SortDesc(sums, Vals(sums), t)

(* Variant: the subtraction keeps only the tickers that have both sides. *)
NetPositionInnerJoin(rows, t) ==
    LET buys == RowsWhere(rows, "action", BUY)
        sells == RowsWhere(rows, "action", SELL)
        keys == SortedTexts(TextKeys(buys, "ticker") \cap TextKeys(sells, "ticker"))
        net == [i \in 1..Len(keys) |->
                   [key |-> keys[i],
                    val |-> SumCol(RowsWhere(buys, "ticker", keys[i]), "quantity")
                            - SumCol(RowsWhere(sells, "ticker", keys[i]), "quantity")]]
    IN SortDesc(net, Vals(net), t)

(* buys.sub(sells, fill_value=0): the union of both key sets, a missing side 0 *)
NetPosition(rows, t) ==
    LET buys == RowsWhere(rows, "action", BUY)
        sells == RowsWhere(rows, "action", SELL)
        keys == SortedTexts(TextKeys(buys, "ticker") \cup TextKeys(sells, "ticker"))
        net == [i \in 1..Len(keys) |->
                   [key |-> keys[i],
                    val |-> SumCol(RowsWhere(buys, "ticker", keys[i]), "quantity")
                            - SumCol(RowsWhere(sells, "ticker", keys[i]), "quantity")]]
    IN SortDesc(net, Vals(net), t)

(* groupby("trader_id").agg(count of timestamp, sum of total_value) *)
CountNotNull(rows, col) == Len(SelectSeq(rows, LAMBDA r : r[col].k # "nat"))

(* Variant: transaction_count counts the distinct timestamps of a trader. *)
TraderActivityDistinctTimes(rows, t) ==
    LET keys == SortedTexts(TextKeys(rows, "trader_id"))
        agg == [i \in 1..Len(keys) |->
                   [key |-> keys[i],
                    transaction_count |->
                        Cardinality({r.timestamp :
                            r \in {rows[j] : j \in {n \in 1..Len(rows) :
                                                       rows[n].trader_id.s = keys[i]}}}),
                    total_value |->
                        SumCol(RowsWhere(rows, "trader_id", keys[i]), "total_value")]]
    IN SortDesc(agg, Counts(agg), t)

TraderActivity(rows, t) ==
    LET keys == SortedTexts(TextKeys(rows, "trader_id"))
        agg == [i \in 1..Len(keys) |->
                   [key |-> keys[i],
                    transaction_count |->
                        CountNotNull(RowsWhere(rows, "trader_id", keys[i]), "timestamp"),
                    total_value |->
                        SumCol(RowsWhere(rows, "trader_id", keys[i]), "total_value")]]
    IN SortDesc(agg, Counts(agg), t)

(* groupby("date")["total_value"].sum().sort_index() *)
DailyVolume(rows) ==
    LET keys == SortedDates({rows[i].date : i \in 1..Len(rows)})
    IN [i \in 1..Len(keys) |->
           [key |-> keys[i],
            val |-> SumCol(SelectSeq(rows, LAMBDA r : r.date = keys[i]), "total_value")]]

(* value_counts(): one entry per value in order of first appearance, then *)
(* descending by count                                                    *)
FirstSeen(rows, col) ==
    LET first(k) == CHOOSE i \in 1..Len(rows) :
                        /\ rows[i][col].s = k
                        /\ \A j \in 1..(i - 1) : rows[j][col].s # k
        keys == TextKeys(rows, col)
    IN [i \in 1..Cardinality(keys) |->
           CHOOSE k \in keys : Cardinality({j \in keys : first(j) < first(k)}) = i - 1]

(* Variant: every action present counts once. *)
ActionCountsPresence(rows, t) ==
    LET keys == FirstSeen(rows, "action")
        counts == [i \in 1..Len(keys) |-> [key |-> keys[i], val |-> 1]]
    IN SortDesc(counts, Vals(counts), t)

ActionCounts(rows, t) ==
    LET keys == FirstSeen(rows, "action")
        counts == [i \in 1..Len(keys) |->
                      [key |-> keys[i], val |-> Len(RowsWhere(rows, "action", keys[i]))]]
    IN SortDesc(counts, Vals(counts), t)

(* (timestamp.min(), timestamp.max()); NaT on an empty column *)
MinTs(rows) ==
    IF rows = <<>> THEN NaT
    ELSE LET i == CHOOSE i \in 1..Len(rows) :
                      \A j \in 1..Len(rows) : TsLE(rows[i].timestamp, rows[j].timestamp)
         IN rows[i].timestamp

MaxTs(rows) ==
    IF rows = <<>> THEN NaT
    ELSE LET i == CHOOSE i \in 1..Len(rows) :
                      \A j \in 1..Len(rows) : TsLE(rows[j].timestamp, rows[i].timestamp)
         IN rows[i].timestamp

DateRange(rows) == <<MinTs(rows), MaxTs(rows)>>

NoAnalytics == [empty |-> TRUE]

(* calculate_analytics on the cleaned frame *)
AnalyticsOf(frame, t) ==
    LET rows == frame.rows
    IN [empty |-> FALSE,
        total_transactions |-> Len(rows),
        total_volume |-> SumCol(rows, "total_value"),
        unique_tickers |-> Cardinality(TextKeys(rows, "ticker")),
        unique_traders |-> Cardinality(TextKeys(rows, "trader_id")),
        date_range |-> DateRange(rows),
        volume_by_ticker |-> VolumeByTicker(rows, t),
        net_position |-> NetPosition(rows, t),
        trader_activity |-> TraderActivity(rows, t),
        daily_volume |-> DailyVolume(rows),
        action_counts |-> ActionCounts(rows, t)]

(* ------------------------------- queries ------------------------------ *)
(* cleaned_df[cleaned_df[col] == key].copy() *)
RowsMatching(frame, col, key) == SelectSeq(frame.rows, LAMBDA r : r[col].s = key)

(* Variant: the end bound is exclusive. *)
RowsBetweenHalfOpen(frame, start, end) ==
    SelectSeq(frame.rows,
              LAMBDA r : /\ start.k = "ts" /\ TsLE(start, r.timestamp)
                         /\ end.k = "ts" /\ TsLT(r.timestamp, end))

(* cleaned_df[(timestamp >= start) & (timestamp <= end)].copy(); a         *)
(* comparison with NaT is False                                            *)
RowsBetween(frame, start, end) ==
    SelectSeq(frame.rows,
              LAMBDA r : /\ start.k = "ts" /\ TsLE(start, r.timestamp)
                         /\ end.k = "ts" /\ TsLE(r.timestamp, end))

(* ------------------------------- inputs ------------------------------- *)
HOLD == <<"H", "O", "L", "D">>

BaseRow ==
    [timestamp |-> TsExact(1, 1), ticker |-> Txt(<<"A">>), action |-> Txt(BUY),
     quantity |-> Num(2), price |-> Num(3), trader_id |-> Txt(<<"T", "1">>)]

(* The values a CSV cell takes besides the base row's. *)
CellValues(c) ==
    CASE c = "timestamp" -> {TsExact(1, 0), TsExact(2, 0), TsDateOnly(1), TsJunk, TsNA}
      [] c = "ticker" -> {Txt(<<"B">>), Txt(<<" ", "a", " ">>), Txt(<<" ">>), NA}
      [] c = "action" -> {Txt(SELL), Txt(<<" ", "b", "u", "y", " ">>), Txt(HOLD), NA}
      [] c = "quantity" -> {Num(1), Num(-1), NumText, NumNA}
      [] c = "price" -> {Num(0), NumText, NumNA}
      [] c = "trader_id" -> {Txt(<<"T", "2">>), Txt(<<"t", "1", " ">>), Txt(<<" ">>), NA}

(* The rows a source file may hold: the base row with at most one cell changed. *)
RawRows ==
    {BaseRow} \cup
    UNION {{[BaseRow EXCEPT ![c] = v] : v \in CellValues(c)} : c \in RequiredSet}

(* The rows of a source file that changes while the controller lives. *)
CoreRows ==
    {BaseRow,
     [BaseRow EXCEPT !.timestamp = TsExact(1, 0)],
     [BaseRow EXCEPT !.ticker = Txt(<<"B">>)],
     [BaseRow EXCEPT !.trader_id = Txt(<<"T", "2">>)],
     [BaseRow EXCEPT !.price = Num(0)]}

DroppedCols == {"price"}

TickerKeys == {<<" ", "a">>, <<"A">>, <<"B">>}
TraderKeys == {<<"t", "2", " ">>, <<"T", "2">>}
BoundValues == {TsDateOnly(1), TsExact(1, 1), TsJunk}

(* ---------------------------- state machine --------------------------- *)
(* The threads that read one controller at the same time, each at rest.    *)
ReaderIds == {"r1", "r2"}

IdleReader == [pc |-> "idle"]

(* No call of the application layer (api, dashboard, run_insights,         *)
(* insights_generator) has been made.                                      *)
NoApp == [fn |-> "none"]

(* What the controller's caller saw last: the call, its error ("none" when *)
(* it returned), its arguments and result; again marks a clean or an       *)
(* aggregate that directly follows a successful call of the same stage;    *)
(* shared tells whether the result is the controller's own table (FALSE:   *)
(* every query returns a .copy()).                                         *)
Call(op, err) ==
    [op |-> op, err |-> err, key |-> <<>>, start |-> TsNA, end |-> TsNA, ret |-> <<>>,
     again |-> op \in {"clean", "aggregate"} /\ last.op = op /\ last.err = "none",
     shared |-> FALSE]

Init ==
    /\ source = [cols |-> RequiredSet, rows |-> <<>>]
    /\ df = None
    /\ cleaned_df = None
    /\ analytics = NoAnalytics
    /\ last = [op |-> "init", err |-> "none", key |-> <<>>, start |-> TsNA, end |-> TsNA,
               ret |-> <<>>, again |-> FALSE, shared |-> FALSE]
    /\ tie \in {"keep", "rev"}
    /\ readers = [r \in ReaderIds |-> IdleReader]
    /\ app = NoApp

(* The environment appends a transaction to the CSV file. *)
AppendRow(r) ==
    /\ Len(source.rows) < MaxRows
    /\ source.cols = RequiredSet
    /\ source' = [source EXCEPT !.rows = Append(@, r)]
    /\ UNCHANGED <<df, cleaned_df, analytics, last, tie, readers, app>>

(* The environment replaces the CSV file by one lacking the column c. *)
ReplaceHeader(c) ==
    /\ source.cols = RequiredSet
    /\ source' = [cols |-> RequiredSet \ {c}, rows |-> <<>>]
    /\ UNCHANGED <<df, cleaned_df, analytics, last, tie, readers, app>>

(* Variant: a load that fails validation drops the raw table. *)
LoadDataResetting ==
    /\ df' = IF MissingCols(ReadCsv(source)) # <<>> THEN None ELSE ReadCsv(source)
    /\ last' = Call("load", IF MissingCols(ReadCsv(source)) # <<>> THEN "SchemaError" ELSE "none")
    /\ UNCHANGED <<source, cleaned_df, analytics, tie, readers, app>>

(* load_data: self.df is assigned before the columns are validated *)
LoadData ==
    /\ df' = ReadCsv(source)
    /\ last' = Call("load", IF MissingCols(ReadCsv(source)) # <<>> THEN "SchemaError" ELSE "none")
    /\ UNCHANGED <<source, cleaned_df, analytics, tie, readers, app>>

(* Variant: the "not loaded" guard is missing and an absent table cleans *)
(* as an empty one.                                                      *)
CleanDataUnguarded ==
    IF df.none
    THEN /\ cleaned_df' = Frame(RequiredSet \cup {"total_value", "date"}, <<>>)
         /\ last' = Call("clean", "none")
         /\ UNCHANGED <<source, df, analytics, tie, readers, app>>
    ELSE IF MissingCols(df) # <<>>
    THEN /\ last' = Call("clean", "KeyError")
         /\ UNCHANGED <<source, df, cleaned_df, analytics, tie, readers, app>>
    ELSE /\ cleaned_df' = CleanOf(df, tie)
         /\ last' = Call("clean", "none")
         /\ UNCHANGED <<source, df, analytics, tie, readers, app>>

(* Variant: a clean that keeps no row raises instead of returning. *)
CleanDataRaisesOnEmpty ==
    IF df.none
    THEN /\ last' = Call("clean", "InvalidState")
         /\ UNCHANGED <<source, df, cleaned_df, analytics, tie, readers, app>>
    ELSE IF MissingCols(df) # <<>>
    THEN /\ last' = Call("clean", "KeyError")
         /\ UNCHANGED <<source, df, cleaned_df, analytics, tie, readers, app>>
    ELSE IF CleanRows(df.rows, tie) = <<>>
    THEN /\ last' = Call("clean", "ValueError")
         /\ UNCHANGED <<source, df, cleaned_df, analytics, tie, readers, app>>
    ELSE /\ cleaned_df' = CleanOf(df, tie)
         /\ last' = Call("clean", "none")
         /\ UNCHANGED <<source, df, analytics, tie, readers, app>>

(* Variant: the rows of a clean are added to the cleaned table already held. *)
CleanDataAccumulating ==
    IF df.none
    THEN /\ last' = Call("clean", "InvalidState")
         /\ UNCHANGED <<source, df, cleaned_df, analytics, tie, readers, app>>
    ELSE IF MissingCols(df) # <<>>
    THEN /\ last' = Call("clean", "KeyError")
         /\ UNCHANGED <<source, df, cleaned_df, analytics, tie, readers, app>>
    ELSE /\ cleaned_df' =
               IF cleaned_df.none THEN CleanOf(df, tie)
               ELSE Frame(cleaned_df.cols,
                          ResetIndex(cleaned_df.rows \o CleanRows(df.rows, tie)))
         /\ last' = Call("clean", "none")
         /\ UNCHANGED <<source, df, analytics, tie, readers, app>>

(* Variant: steps 1-3 convert self.df itself, not a copy. *)
CleanDataInPlace ==
    IF df.none
    THEN /\ last' = Call("clean", "InvalidState")
         /\ UNCHANGED <<source, df, cleaned_df, analytics, tie, readers, app>>
    ELSE IF MissingCols(df) # <<>>
    THEN /\ last' = Call("clean", "KeyError")
         /\ UNCHANGED <<source, df, cleaned_df, analytics, tie, readers, app>>
    ELSE /\ cleaned_df' = CleanOf(df, tie)
         /\ df' = [df EXCEPT !.rows = ConvertRows(df.rows)]
         /\ last' = Call("clean", "none")
         /\ UNCHANGED <<source, analytics, tie, readers, app>>

(* clean_data *)
CleanData ==
    IF df.none
    THEN /\ last' = Call("clean", "InvalidState")
         /\ UNCHANGED <<source, df, cleaned_df, analytics, tie, readers, app>>
    ELSE IF MissingCols(df) # <<>>
    THEN /\ last' = Call("clean", "KeyError")
         /\ UNCHANGED <<source, df, cleaned_df, analytics, tie, readers, app>>
    ELSE /\ cleaned_df' = CleanOf(df, tie)
         /\ last' = Call("clean", "none")
         /\ UNCHANGED <<source, df, analytics, tie, readers, app>>

(* calculate_analytics *)
CalculateAnalytics ==
    IF cleaned_df.none
    THEN /\ last' = Call("aggregate", "InvalidState")
         /\ UNCHANGED <<source, df, cleaned_df, analytics, tie, readers, app>>
    ELSE /\ analytics' = AnalyticsOf(cleaned_df, tie)
         /\ last' = Call("aggregate", "none")
         /\ UNCHANGED <<source, df, cleaned_df, tie, readers, app>>

(* Variant: the key is compared as the caller gave it. *)
GetByKeyExact(op, col, k) ==
    /\ last' = IF cleaned_df.none
               THEN [Call(op, "InvalidState") EXCEPT !.key = k]
               ELSE [Call(op, "none") EXCEPT !.key = k,
                        !.ret = RowsMatching(cleaned_df, col, k)]
    /\ UNCHANGED <<source, df, cleaned_df, analytics, tie, readers, app>>

(* Variant: the result is handed out without .copy() and shares the data  *)
(* of the controller's table.                                             *)
GetByKeyShared(op, col, k) ==
    /\ last' = IF cleaned_df.none
               THEN [Call(op, "InvalidState") EXCEPT !.key = k]
               ELSE [Call(op, "none") EXCEPT !.key = k, !.shared = TRUE,
                        !.ret = RowsMatching(cleaned_df, col, NormKey(k))]
    /\ UNCHANGED <<source, df, cleaned_df, analytics, tie, readers, app>>

(* get_transactions_by_ticker / get_trader_transactions *)
GetByKey(op, col, k) ==
    /\ last' = IF cleaned_df.none
               THEN [Call(op, "InvalidState") EXCEPT !.key = k]
               ELSE [Call(op, "none") EXCEPT !.key = k,
                        !.ret = RowsMatching(cleaned_df, col, NormKey(k))]
    /\ UNCHANGED <<source, df, cleaned_df, analytics, tie, readers, app>>

GetTransactionsByTicker(k) == GetByKey("by_ticker", "ticker", k)

GetTraderTransactions(k) == GetByKey("by_trader", "trader_id", k)

(* get_transactions_by_timerange *)
GetTransactionsByTimerange(s, e) ==
    /\ last' = IF cleaned_df.none
               THEN [Call("by_timerange", "InvalidState") EXCEPT !.start = s, !.end = e]
               ELSE IF ToDatetimeLenient(s) = ParseFail \/ ToDatetimeLenient(e) = ParseFail
               THEN [Call("by_timerange", "ParseError") EXCEPT !.start = s, !.end = e]
               ELSE [Call("by_timerange", "none") EXCEPT !.start = s, !.end = e,
                        !.ret = RowsBetween(cleaned_df, ToDatetimeLenient(s),
                                            ToDatetimeLenient(e))]
    /\ UNCHANGED <<source, df, cleaned_df, analytics, tie, readers, app>>

(* f"${x:,.2f}" and f"${x:,.0f}": the amount as text in the given format; *)
(* str() of a timestamp.                                                   *)
FormatMoney(v, decimals) == [text |-> "money", decimals |-> decimals, v |-> v]

TimestampText(ts) == [text |-> "timestamp", k |-> ts.k, d |-> ts.d, t |-> ts.t]

NotAvailable == <<"N", "/", "A">>

(* The summary get_summary_stats builds from a bundle. *)
SummaryOf(a) ==
    [total_transactions |-> a.total_transactions,
     total_volume |-> FormatMoney(a.total_volume, 2),
     unique_tickers |-> a.unique_tickers,
     unique_traders |-> a.unique_traders,
     date_range |-> <<TimestampText(a.date_range[1]), TimestampText(a.date_range[2])>>,
     top_ticker_by_volume |->
         IF Len(a.volume_by_ticker) > 0 THEN a.volume_by_ticker[1].key ELSE NotAvailable,
     most_active_trader |->
         IF Len(a.trader_activity) > 0 THEN a.trader_activity[1].key ELSE NotAvailable]

(* Variant: the summary is read from self.analytics as it is, and an empty *)
(* dict has none of the keys.                                              *)
GetSummaryStatsNoAggregate ==
    IF analytics.empty
    THEN /\ last' = Call("summary", IF cleaned_df.none THEN "InvalidState" ELSE "KeyError")
         /\ UNCHANGED <<source, df, cleaned_df, analytics, tie, readers, app>>
    ELSE /\ last' = [Call("summary", "none") EXCEPT !.ret = <<SummaryOf(analytics)>>]
         /\ UNCHANGED <<source, df, cleaned_df, analytics, tie, readers, app>>

(* get_summary_stats: aggregates first when no bundle is held *)
GetSummaryStats ==
    IF analytics.empty /\ cleaned_df.none
    THEN /\ last' = Call("summary", "InvalidState")
         /\ UNCHANGED <<source, df, cleaned_df, analytics, tie, readers, app>>
    ELSE IF analytics.empty
    THEN /\ analytics' = AnalyticsOf(cleaned_df, tie)
         /\ last' = [Call("summary", "none") EXCEPT
                        !.ret = <<SummaryOf(AnalyticsOf(cleaned_df, tie))>>]
         /\ UNCHANGED <<source, df, cleaned_df, tie, readers, app>>
    ELSE /\ last' = [Call("summary", "none") EXCEPT !.ret = <<SummaryOf(analytics)>>]
         /\ UNCHANGED <<source, df, cleaned_df, analytics, tie, readers, app>>

(* run_insights.analytics_summary_for_prompt on the bundle build_analytics *)
(* returned: Series.get / dict.get give the default for an absent key.     *)
TopN == 5

RowGet(row, col, default) == IF col \in DOMAIN row THEN row[col] ELSE default

SeqHead(s, n) == SubSeq(s, 1, IF Len(s) < n THEN Len(s) ELSE n)

AnalyticsSummaryForPrompt ==
    /\ ~analytics.empty
    /\ app' =
         [fn |-> "analytics_summary_for_prompt",
          total_transactions |-> analytics.total_transactions,
          total_notional |-> FormatMoney(analytics.total_volume, 2),
          unique_tickers |-> analytics.unique_tickers,
          unique_traders |-> analytics.unique_traders,
          date_range |-> <<TimestampText(analytics.date_range[1]),
                           TimestampText(analytics.date_range[2])>>,
          top_tickers |->
              [i \in 1..Len(SeqHead(analytics.volume_by_ticker, TopN)) |->
                  [key |-> analytics.volume_by_ticker[i].key,
                   val |-> FormatMoney(analytics.volume_by_ticker[i].val, 0)]],
          action_counts |-> analytics.action_counts,
          most_active_trader |->
              IF Len(analytics.trader_activity) > 0
              THEN <<[trader_id |-> analytics.trader_activity[1].key,
                      tx |-> RowGet(analytics.trader_activity[1], "transaction_count", 0),
                      notional |->
                          FormatMoney(RowGet(analytics.trader_activity[1], "total_volume", 0),
                                      0)]>>
              ELSE <<>>]
    /\ UNCHANGED <<source, df, cleaned_df, analytics, last, tie, readers>>

(* The caller assigns to a cell of the frame a query returned: the         *)
(* quantity of its first row becomes 0. The frame is a copy, so the write  *)
(* reaches the controller's table only if the result shares its data.      *)
ZeroQuantity(rows, idx) ==
    [i \in 1..Len(rows) |->
        IF rows[i].idx = idx THEN [rows[i] EXCEPT !.quantity = Num(0)] ELSE rows[i]]

MutateResult ==
    /\ last.op \in {"by_ticker", "by_trader", "by_timerange"}
    /\ last.err = "none"
    /\ last.ret # <<>>
    /\ last' = [last EXCEPT !.op = "edit_result",
                            !.ret = ZeroQuantity(last.ret, last.ret[1].idx)]
    /\ cleaned_df' = IF last.shared
                     THEN [cleaned_df EXCEPT
                              !.rows = ZeroQuantity(cleaned_df.rows, last.ret[1].idx)]
                     ELSE cleaned_df
    /\ UNCHANGED <<source, df, analytics, tie, readers, app>>

(* One controller over a CSV file that is edited while the controller lives. *)
Next ==
    \/ \E r \in CoreRows : AppendRow(r)
    \/ \E c \in DroppedCols : ReplaceHeader(c)
    \/ LoadData
    \/ CleanData
    \/ CalculateAnalytics
    \/ \E k \in TickerKeys : GetTransactionsByTicker(k)
    \/ \E k \in TraderKeys : GetTraderTransactions(k)
    \/ \E s \in BoundValues, e \in BoundValues : GetTransactionsByTimerange(s, e)

Spec == Init /\ [][Next]_vars

(* One pass over a CSV file that is complete before it is first read, as  *)
(* process_transactions makes it: a single load, then the stages.         *)
NextBatch ==
    \/ df.none /\ \E r \in RawRows : AppendRow(r)
    \/ df.none /\ LoadData
    \/ CleanData
    \/ CalculateAnalytics

SpecBatch == Init /\ [][NextBatch]_vars

(* The records of a file of well-formed trades, and the files made of them. *)
MaxTrades == 3

TradeRows ==
    {BaseRow,
     [BaseRow EXCEPT !.action = Txt(SELL)],
     [BaseRow EXCEPT !.ticker = Txt(<<"B">>)],
     [BaseRow EXCEPT !.trader_id = Txt(<<"T", "2">>)],
     [BaseRow EXCEPT !.quantity = Num(1)],
     [BaseRow EXCEPT !.timestamp = TsExact(2, 0)],
     [BaseRow EXCEPT !.trader_id = Txt(<<" ">>)]}

TradeFiles == UNION {[1..n -> TradeRows] : n \in 1..MaxTrades}

(* The environment writes the CSV file, empty until then, in one go. *)
WriteFile(rows) ==
    /\ source.rows = <<>>
    /\ source' = [cols |-> RequiredSet, rows |-> rows]
    /\ UNCHANGED <<df, cleaned_df, analytics, last, tie, readers, app>>

(* One pass over a file of trades: written, loaded once, cleaned, aggregated. *)
NextAnalytics ==
    \/ df.none /\ \E f \in TradeFiles : WriteFile(f)
    \/ df.none /\ LoadData
    \/ CleanData
    \/ CalculateAnalytics
    \/ AnalyticsSummaryForPrompt

SpecAnalytics == Init /\ [][NextAnalytics]_vars

(* The bounds a caller passes to the time-range query: also the empty text. *)
QueryBounds == BoundValues \cup {TsNA}

(* One controller over a complete CSV file, loaded once, whose cleaned     *)
(* table is aggregated and queried, the caller editing what it gets back.  *)
NextQuery ==
    \/ df.none /\ \E r \in CoreRows : AppendRow(r)
    \/ df.none /\ LoadData
    \/ CleanData
    \/ CalculateAnalytics
    \/ \E k \in TickerKeys : GetTransactionsByTicker(k)
    \/ \E k \in TraderKeys : GetTraderTransactions(k)
    \/ \E s \in QueryBounds, e \in QueryBounds : GetTransactionsByTimerange(s, e)
    \/ MutateResult
    \/ GetSummaryStats

SpecQuery == Init /\ [][NextQuery]_vars

(* ------------------------- concurrent readers ------------------------- *)
(* The queries the reader threads issue: q.op with its key or its bounds.  *)
ReaderQueries ==
    {[op |-> "by_ticker", key |-> <<" ", "a">>, start |-> TsNA, end |-> TsNA],
     [op |-> "by_ticker", key |-> <<"B">>, start |-> TsNA, end |-> TsNA],
     [op |-> "by_trader", key |-> <<"t", "2", " ">>, start |-> TsNA, end |-> TsNA],
     [op |-> "by_timerange", key |-> <<>>, start |-> TsDateOnly(1), end |-> TsExact(1, 1)],
     [op |-> "by_timerange", key |-> <<>>, start |-> TsJunk, end |-> TsExact(1, 1)]}

QueryColumn(q) == IF q.op = "by_ticker" THEN "ticker" ELSE "trader_id"

(* The boolean Series a query builds over the table it reads:              *)
(* cleaned_df[col] == key, or (timestamp >= start) & (timestamp <= end).   *)
MaskOf(frame, q, key, start, end) ==
    [i \in 1..Len(frame.rows) |->
        IF q.op = "by_timerange"
        THEN /\ start.k = "ts" /\ TsLE(start, frame.rows[i].timestamp)
             /\ end.k = "ts" /\ TsLE(frame.rows[i].timestamp, end)
        ELSE frame.rows[i][QueryColumn(q)].s = key]

(* frame[mask]: the rows at the positions the mask marks, in table order *)
SelectByMask(rows, mask) ==
    LET positions == SelectSeq([i \in 1..Len(rows) |-> i],
                               LAMBDA i : i <= Len(mask) /\ mask[i])
    IN [j \in 1..Len(positions) |-> rows[positions[j]]]

(* A reader enters a query: the not-cleaned guard, then the key is         *)
(* normalised or the bounds parsed.                                        *)
ReaderCall(r, q) ==
    /\ readers[r].pc \in {"idle", "done"}
    /\ readers' =
         [readers EXCEPT ![r] =
             IF cleaned_df.none
             THEN [pc |-> "done", q |-> q, err |-> "InvalidState", ret |-> <<>>]
             ELSE IF /\ q.op = "by_timerange"
                     /\ (ToDatetimeLenient(q.start) = ParseFail
                            \/ ToDatetimeLenient(q.end) = ParseFail)
             THEN [pc |-> "done", q |-> q, err |-> "ParseError", ret |-> <<>>]
             ELSE [pc |-> "called", q |-> q, key |-> NormKey(q.key),
                   start |-> ToDatetimeLenient(q.start),
                   end |-> ToDatetimeLenient(q.end)]]
    /\ UNCHANGED <<source, df, cleaned_df, analytics, last, tie, app>>

(* The reader evaluates the comparison over self.cleaned_df. *)
ReaderMask(r) ==
    /\ readers[r].pc = "called"
    /\ readers' =
         [readers EXCEPT ![r] =
             [pc |-> "masked", q |-> readers[r].q,
              mask |-> MaskOf(cleaned_df, readers[r].q, readers[r].key,
                              readers[r].start, readers[r].end)]]
    /\ UNCHANGED <<source, df, cleaned_df, analytics, last, tie, app>>

(* Variant: the selection is written back to the controller's table        *)
(* instead of being copied out of it.                                      *)
ReaderSelectInPlace(r) ==
    /\ readers[r].pc = "masked"
    /\ readers' =
         [readers EXCEPT ![r] =
             [pc |-> "done", q |-> readers[r].q, err |-> "none",
              ret |-> SelectByMask(cleaned_df.rows, readers[r].mask)]]
    /\ cleaned_df' = [cleaned_df EXCEPT !.rows = SelectByMask(@, readers[r].mask)]
    /\ UNCHANGED <<source, df, analytics, last, tie, app>>

(* The reader indexes self.cleaned_df by its mask and returns the copy. *)
ReaderSelect(r) ==
    /\ readers[r].pc = "masked"
    /\ readers' =
         [readers EXCEPT ![r] =
             [pc |-> "done", q |-> readers[r].q, err |-> "none",
              ret |-> SelectByMask(cleaned_df.rows, readers[r].mask)]]
    /\ UNCHANGED <<source, df, cleaned_df, analytics, last, tie, app>>

(* One controller taken through load, clean and aggregate once, then read  *)
(* by the reader threads, whose steps interleave; no stage runs again.     *)
NextReaders ==
    \/ df.none /\ \E r \in CoreRows : AppendRow(r)
    \/ df.none /\ LoadData
    \/ cleaned_df.none /\ CleanData
    \/ analytics.empty /\ CalculateAnalytics
    \/ ~analytics.empty /\ \E r \in ReaderIds, q \in ReaderQueries : ReaderCall(r, q)
    \/ ~analytics.empty /\ \E r \in ReaderIds : ReaderMask(r)
    \/ ~analytics.empty /\ \E r \in ReaderIds : ReaderSelect(r)

SpecReaders == Init /\ [][NextReaders]_vars

(* ---------------------- the bundle as Python values ------------------- *)
(* Float addition and subtraction with the infinities and NaN. *)
FAdd(a, b) ==
    IF a.k = "nan" \/ b.k = "nan" THEN NaN
    ELSE IF a.k = "num" /\ b.k = "num" THEN Num(a.v + b.v)
    ELSE IF {a.k, b.k} = {"inf", "ninf"} THEN NaN
    ELSE IF "inf" \in {a.k, b.k} THEN Inf ELSE NegInf

FNeg(a) == IF a.k = "inf" THEN NegInf ELSE IF a.k = "ninf" THEN Inf
           ELSE IF a.k = "num" THEN Num(0 - a.v) ELSE NaN

FSub(a, b) == FAdd(a, FNeg(b))

RECURSIVE FSumFrom(_, _, _)
FSumFrom(rows, i, col) ==
    IF i > Len(rows) THEN Num(0) ELSE FAdd(rows[i][col], FSumFrom(rows, i + 1, col))

(* Series.sum() of a float column *)
FSum(rows, col) == FSumFrom(rows, 1, col)

(* The values the bundle is made of, by Python type. A mapping is the set  *)
(* of its entries: the serializers treat every entry alike, whatever its   *)
(* place.                                                                  *)
PyNone == [py |-> "None"]
PyInt(n) == [py |-> "int", v |-> n]
PyFloat(c) == [py |-> "float", k |-> c.k, v |-> c.v]
PyStr(s) == [py |-> "str", form |-> "chars", s |-> s]
PyDate(d) == [py |-> "date", d |-> d]
PyTimestamp(ts) == IF ts.k = "nat" THEN [py |-> "NaT"]
                   ELSE [py |-> "Timestamp", d |-> ts.d, t |-> ts.t]
PyTuple(items) == [py |-> "tuple", items |-> items]
PyList(items) == [py |-> "list", items |-> items]
PyDict(entries) == [py |-> "dict", entries |-> entries]
PySeries(entries) == [py |-> "Series", entries |-> entries]
PyDataFrame(index, columns, rows) ==
    [py |-> "DataFrame", index |-> index, columns |-> columns, rows |-> rows]

Entry(key, val) == [key |-> key, val |-> val]

(* calculate_analytics on the cleaned frame, its sums in float arithmetic, *)
(* as the dict of Python and pandas objects the serializers receive.       *)
BundleOf(frame, t) ==
    LET rows == frame.rows
        buys == RowsWhere(rows, "action", BUY)
        sells == RowsWhere(rows, "action", SELL)
        activity == TraderActivity(rows, t)
        counts == ActionCounts(rows, t)
    IN PyDict({
        Entry(PyStr(<<"total_transactions">>), PyInt(Len(rows))),
        Entry(PyStr(<<"total_volume">>), PyFloat(FSum(rows, "total_value"))),
        Entry(PyStr(<<"unique_tickers">>), PyInt(Cardinality(TextKeys(rows, "ticker")))),
        Entry(PyStr(<<"unique_traders">>), PyInt(Cardinality(TextKeys(rows, "trader_id")))),
        Entry(PyStr(<<"date_range">>),
              PyTuple(<<PyTimestamp(MinTs(rows)), PyTimestamp(MaxTs(rows))>>)),
        Entry(PyStr(<<"volume_by_ticker">>),
              PySeries({Entry(PyStr(k),
                              PyFloat(FSum(RowsWhere(rows, "ticker", k), "total_value")))
                        : k \in TextKeys(rows, "ticker")})),
        Entry(PyStr(<<"net_position">>),
              PySeries({Entry(PyStr(k),
                              PyFloat(FSub(FSum(RowsWhere(buys, "ticker", k), "quantity"),
                                           FSum(RowsWhere(sells, "ticker", k), "quantity"))))
                        : k \in TextKeys(buys, "ticker") \cup TextKeys(sells, "ticker")})),
        Entry(PyStr(<<"trader_activity">>),
              PyDataFrame(PyStr(<<"trader_id">>),
                          {<<"transaction_count">>, <<"total_value">>},
                          [i \in 1..Len(activity) |->
                              [key |-> PyStr(activity[i].key),
                               cells |-> {
                                  Entry(PyStr(<<"transaction_count">>),
                                        PyInt(activity[i].transaction_count)),
                                  Entry(PyStr(<<"total_value">>),
                                        PyFloat(FSum(RowsWhere(rows, "trader_id",
                                                               activity[i].key),
                                                     "total_value")))}]])),
        Entry(PyStr(<<"daily_volume">>),
              PySeries({Entry(PyDate(d),
                              PyFloat(FSum(SelectSeq(rows, LAMBDA r : r.date = d),
                                           "total_value")))
                        : d \in {rows[i].date : i \in 1..Len(rows)}})),
        Entry(PyStr(<<"action_counts">>),
              PySeries({Entry(PyStr(counts[i].key), PyInt(counts[i].val))
                        : i \in 1..Len(counts)}))})

(* x.isoformat(): a timestamp as YYYY-MM-DDTHH:MM:SS, a date as            *)
(* YYYY-MM-DD, NaT as the text "NaT".                                      *)
IsoFormat(x) ==
    CASE x.py = "Timestamp" ->
            [py |-> "str", form |-> "YYYY-MM-DDTHH:MM:SS", d |-> x.d, t |-> x.t]
      [] x.py = "date" -> [py |-> "str", form |-> "YYYY-MM-DD", d |-> x.d, t |-> 0]
      [] x.py = "NaT" -> PyStr(<<"N", "a", "T">>)

(* str(k) of a mapping key *)
Str(x) ==
    CASE x.py = "str" -> x
      [] x.py = "date" -> [py |-> "str", form |-> "YYYY-MM-DD", d |-> x.d, t |-> 0]
      [] x.py = "Timestamp" ->
            [py |-> "str", form |-> "YYYY-MM-DD HH:MM:SS", d |-> x.d, t |-> x.t]
      [] x.py = "NaT" -> PyStr(<<"N", "a", "T">>)
      [] OTHER -> [py |-> "str", form |-> "repr", of |-> x]

(* Series.to_dict() and DataFrame.to_dict(): {index: value} and            *)
(* {column: {index: value}}                                                *)
ToDict(x) ==
    IF x.py = "Series" THEN PyDict(x.entries)
    ELSE PyDict({Entry(PyStr(c),
                       PyDict({Entry(x.rows[i].key,
                                     (CHOOSE e \in x.rows[i].cells : e.key = PyStr(c)).val)
                               : i \in 1..Len(x.rows)}))
                 : c \in x.columns})

(* DataFrame.reset_index().to_dict(orient="records"): one dict per row,    *)
(* the index as a column of its own                                        *)
ToRecords(x) ==
    PyList([i \in 1..Len(x.rows) |->
               PyDict({Entry(x.index, x.rows[i].key)} \cup x.rows[i].cells)])

(* api.export_analytics_json: _normalize_key and _normalize *)
NormalizeKey(k) == IF k.py \in {"Timestamp", "NaT", "date"} THEN IsoFormat(k) ELSE Str(k)

RECURSIVE Normalize(_)
Normalize(obj) ==
    LET o == IF obj.py \in {"Series", "DataFrame"} THEN ToDict(obj) ELSE obj
    IN CASE o.py = "tuple" -> PyList([i \in 1..Len(o.items) |-> Normalize(o.items[i])])
         [] o.py = "dict" ->
               PyDict({Entry(NormalizeKey(e.key), Normalize(e.val)) : e \in o.entries})
         [] o.py = "list" -> PyList([i \in 1..Len(o.items) |-> Normalize(o.items[i])])
         [] o.py \in {"Timestamp", "NaT", "date"} -> IsoFormat(o)
         [] o.py = "float" -> IF o.k \in {"nan", "inf", "ninf"} THEN PyNone ELSE o
         [] OTHER -> o

(* dashboard.analytics_to_jsonable: _convert *)
RECURSIVE Convert(_)
Convert(obj) ==
    CASE obj.py = "Series" ->
            PyDict({Entry(Str(e.key), Convert(e.val)) : e \in ToDict(obj).entries})
      [] obj.py = "DataFrame" -> ToRecords(obj)
      [] obj.py = "dict" -> PyDict({Entry(Str(e.key), Convert(e.val)) : e \in obj.entries})
      [] obj.py \in {"list", "tuple"} ->
            PyList([i \in 1..Len(obj.items) |-> Convert(obj.items[i])])
      [] obj.py \in {"Timestamp", "NaT", "date"} -> IsoFormat(obj)
      [] obj.py = "float" -> IF obj.k = "nan" THEN PyNone ELSE obj
      [] OTHER -> obj

(* The CSV files the application layer is called on. *)
MaxApiRows == 2

ApiRows ==
    {BaseRow,
     [BaseRow EXCEPT !.quantity = Inf],
     [BaseRow EXCEPT !.price = Inf],
     [BaseRow EXCEPT !.action = Txt(SELL), !.quantity = Inf],
     [BaseRow EXCEPT !.ticker = Txt(<<"B">>), !.trader_id = Txt(<<"T", "2">>),
                     !.timestamp = TsExact(2, 0)]}

ApiFiles == UNION {[1..n -> ApiRows] : n \in 0..MaxApiRows}

(* api.process_transactions on a file: load, clean, aggregate *)
ProcessTransactions(file) ==
    BundleOf(CleanOf(ReadCsv([cols |-> RequiredSet, rows |-> file]), tie), tie)

(* api.export_analytics_json: out is what json.dumps is given *)
ExportAnalyticsJson(file) ==
    /\ app' = [fn |-> "export_analytics_json", file |-> file,
               out |-> Normalize(ProcessTransactions(file))]
    /\ UNCHANGED <<source, df, cleaned_df, analytics, last, tie, readers>>

(* dashboard.analytics_to_jsonable on the bundle of a processed file *)
AnalyticsToJsonable(file) ==
    /\ app' = [fn |-> "analytics_to_jsonable", file |-> file,
               out |-> Convert(ProcessTransactions(file))]
    /\ UNCHANGED <<source, df, cleaned_df, analytics, last, tie, readers>>

(* -------------------------- application layer ------------------------- *)
(* The providers a generator is built for, the API key its environment     *)
(* holds (None, the empty text, a key) and what the provider call does:    *)
(* it returns a text, returns a message without content, fails to import   *)
(* the SDK, or raises any other exception.                                 *)
Providers == {"anthropic", "openai", "local"}

ApiKeys == {"None", "empty", "key"}

ProviderOutcomes == {"text", "empty_text", "no_content", "ImportError", "Exception"}

(* _generate_local_insights: the deterministic text built from the hint *)
LocalInsights == [src |-> "local", text |-> "heuristic"]

(* _call_anthropic / _call_openai when the call returns: the text of the   *)
(* response, or "" when the response carries none.                         *)
ProviderText(outcome) ==
    [src |-> "provider", text |-> IF outcome = "text" THEN "response" ELSE ""]

(* Variant: only a missing SDK is caught; other exceptions reach the caller. *)
CallLlmApiImportOnly(provider, key, outcome) ==
    /\ app' =
         [fn |-> "_call_llm_api", provider |-> provider, key |-> key,
          outcome |-> outcome,
          err |-> IF provider # "local" /\ key = "key" /\ outcome = "Exception"
                  THEN "Exception" ELSE "none",
          called |-> provider # "local" /\ key = "key",
          result |->
              IF provider = "local" THEN LocalInsights
              ELSE IF key # "key" THEN LocalInsights
              ELSE IF outcome = "ImportError" THEN LocalInsights
              ELSE IF outcome = "Exception" THEN [src |-> "none", text |-> ""]
              ELSE ProviderText(outcome)]
    /\ UNCHANGED <<source, df, cleaned_df, analytics, last, tie, readers>>

(* InsightsGenerator._call_llm_api; called tells whether the provider was  *)
(* reached.                                                                *)
CallLlmApi(provider, key, outcome) ==
    /\ app' =
         [fn |-> "_call_llm_api", provider |-> provider, key |-> key,
          outcome |-> outcome,
          err |-> "none",
          called |-> provider # "local" /\ key = "key",
          result |->
              IF provider = "local" THEN LocalInsights
              ELSE IF key # "key" THEN LocalInsights
              ELSE IF outcome = "ImportError" THEN LocalInsights
              ELSE IF outcome = "Exception" THEN LocalInsights
              ELSE ProviderText(outcome)]
    /\ UNCHANGED <<source, df, cleaned_df, analytics, last, tie, readers>>

(* The questions, CSV paths and provider names generate_custom_insight is  *)
(* called with.                                                            *)
Questions == {<<>>, <<" ">>, <<" ", " ">>, <<"q">>, <<" ", "q", " ">>}

CsvPaths == {"valid", "missing"}

ProviderNames == Providers \cup {"bogus"}

(* not question or not question.strip() *)
BlankQuestion(q) == q = <<>> \/ StrStrip(q) = <<>>

(* What follows the question check: process_transactions, then the         *)
(* generator is constructed, then it answers; steps lists what ran.        *)
AfterQuestionCheck(csv, provider) ==
    IF csv = "missing"
    THEN [err |-> "FileNotFoundError", steps |-> <<"process_transactions">>]
    ELSE IF provider \notin Providers
    THEN [err |-> "ValueError", steps |-> <<"process_transactions", "InsightsGenerator">>]
    ELSE [err |-> "none",
          steps |-> <<"process_transactions", "InsightsGenerator",
                      "generate_custom_insights">>]

(* Variant: the question is checked after the CSV was processed and the    *)
(* generator constructed.                                                  *)
GenerateCustomInsightLateCheck(csv, question, provider) ==
    /\ app' =
         [fn |-> "generate_custom_insight", csv |-> csv, question |-> question,
          provider |-> provider,
          err |-> IF AfterQuestionCheck(csv, provider).err \in
                        {"FileNotFoundError", "ValueError"}
                  THEN AfterQuestionCheck(csv, provider).err
                  ELSE IF BlankQuestion(question) THEN "ValueError" ELSE "none",
          steps |-> IF AfterQuestionCheck(csv, provider).err = "none"
                       /\ BlankQuestion(question)
                    THEN <<"process_transactions", "InsightsGenerator">>
                    ELSE AfterQuestionCheck(csv, provider).steps]
    /\ UNCHANGED <<source, df, cleaned_df, analytics, last, tie, readers>>

(* api.generate_custom_insight *)
GenerateCustomInsight(csv, question, provider) ==
    /\ app' =
         [fn |-> "generate_custom_insight", csv |-> csv, question |-> question,
          provider |-> provider,
          err |-> IF BlankQuestion(question) THEN "ValueError"
                  ELSE AfterQuestionCheck(csv, provider).err,
          steps |-> IF BlankQuestion(question) THEN <<>>
                    ELSE AfterQuestionCheck(csv, provider).steps]
    /\ UNCHANGED <<source, df, cleaned_df, analytics, last, tie, readers>>

(* The calls of the application layer, each on its own inputs. *)
NextApi ==
    \/ \E p \in Providers, k \in ApiKeys, o \in ProviderOutcomes : CallLlmApi(p, k, o)
    \/ \E c \in CsvPaths, q \in Questions, p \in ProviderNames :
          GenerateCustomInsight(c, q, p)
    \/ \E f \in ApiFiles : ExportAnalyticsJson(f)
    \/ \E f \in ApiFiles : AnalyticsToJsonable(f)

SpecApi == Init /\ [][NextApi]_vars

(* ------------------------------- claims ------------------------------- *)
CleanedRows == cleaned_df.rows

(* The state right after a clean_data call that returned: df is its input. *)
JustCleaned == last.op = "clean" /\ last.err = "none"

(* A raw record that is valid in the sense of the data model: timestamp in *)
(* the exact form, action BUY or SELL once trimmed and upper-cased,        *)
(* quantity and price numbers above zero.                                  *)
ValidRaw(r) ==
    /\ r.timestamp.k = "exact"
    /\ ~r.action.na
    /\ NormKey(r.action.s) \in {BUY, SELL}
    /\ r.quantity.k = "num" /\ r.quantity.v > 0
    /\ r.price.k = "num" /\ r.price.v > 0

(* C1: after a clean, every row of the cleaned table has a parsed          *)
(* timestamp, an action in {BUY, SELL}, quantity > 0 and price > 0.        *)
C1_CleanedRowsValid ==
    ~cleaned_df.none =>
        \A i \in 1..Len(CleanedRows) :
            /\ CleanedRows[i].timestamp.k = "ts"
            /\ ~CleanedRows[i].action.na
            /\ CleanedRows[i].action.s \in {BUY, SELL}
            /\ CleanedRows[i].quantity.k = "num" /\ CleanedRows[i].quantity.v > 0
            /\ CleanedRows[i].price.k = "num" /\ CleanedRows[i].price.v > 0

(* C1 witness: a clean kept one row and rejected the other for its price. *)
C1_Witness ==
    /\ JustCleaned
    /\ Len(df.rows) = 2
    /\ Len(CleanedRows) = 1
    /\ \E j \in 1..2 : df.rows[j].price = Num(0)

(* C2: after a clean, every row of the cleaned table has a non-empty       *)
(* ticker and a non-empty trader_id, each equal to its trimmed and         *)
(* upper-cased form.                                                       *)
C2_IdentifiersNonEmpty ==
    ~cleaned_df.none =>
        \A i \in 1..Len(CleanedRows) :
            /\ ~CleanedRows[i].ticker.na /\ ~CleanedRows[i].trader_id.na
            /\ CleanedRows[i].ticker.s # <<>>
            /\ CleanedRows[i].trader_id.s # <<>>
            /\ CleanedRows[i].ticker.s = NormKey(CleanedRows[i].ticker.s)
            /\ CleanedRows[i].trader_id.s = NormKey(CleanedRows[i].trader_id.s)

MissingCritical(r) ==
    \/ r.timestamp.k = "na"
    \/ r.ticker.na
    \/ r.action.na
    \/ r.quantity.k = "na"
    \/ r.price.k = "na"

(* C3: a raw record with a missing value in one of timestamp, ticker,      *)
(* action, quantity, price never appears in the cleaned table.             *)
C3_MissingCriticalDropped ==
    JustCleaned =>
        \A i \in 1..Len(CleanedRows) : ~MissingCritical(df.rows[CleanedRows[i].line])

(* C4: every valid raw record is in the cleaned table exactly once, with   *)
(* its fields parsed and standardized, total_value = quantity * price and  *)
(* date = the date part of its timestamp.                                  *)
C4_ValidKeptOnce ==
    JustCleaned =>
        \A j \in 1..Len(df.rows) :
            ValidRaw(df.rows[j]) =>
                /\ Cardinality({i \in 1..Len(CleanedRows) : CleanedRows[i].line = j}) = 1
                /\ \A i \in 1..Len(CleanedRows) :
                      CleanedRows[i].line = j =>
                          /\ CleanedRows[i].timestamp
                                 = Ts(df.rows[j].timestamp.d, df.rows[j].timestamp.t)
                          /\ CleanedRows[i].action.s = NormKey(df.rows[j].action.s)
                          /\ CleanedRows[i].quantity = df.rows[j].quantity
                          /\ CleanedRows[i].price = df.rows[j].price
                          /\ CleanedRows[i].total_value
                                 = Num(df.rows[j].quantity.v * df.rows[j].price.v)
                          /\ CleanedRows[i].date = df.rows[j].timestamp.d

(* C4 witness: two identical valid records were cleaned, and both are kept. *)
C4_Witness ==
    /\ JustCleaned
    /\ Len(df.rows) = 2
    /\ ValidRaw(df.rows[1])
    /\ [df.rows[1] EXCEPT !.idx = 0, !.line = 0] = [df.rows[2] EXCEPT !.idx = 0, !.line = 0]
    /\ Len(CleanedRows) = 2

(* C5: the cleaned table is ascending by timestamp and its index is        *)
(* exactly 0..n-1.                                                         *)
C5_SortedAndReindexed ==
    ~cleaned_df.none =>
        /\ \A i \in 1..Len(CleanedRows), j \in 1..Len(CleanedRows) :
              i < j => TsLE(CleanedRows[i].timestamp, CleanedRows[j].timestamp)
        /\ \A i \in 1..Len(CleanedRows) : CleanedRows[i].idx = i - 1

(* C5 witness: the later line of the file carries the earlier timestamp and *)
(* comes first in the cleaned table.                                        *)
C5_Witness ==
    /\ ~cleaned_df.none
    /\ Len(CleanedRows) = 2
    /\ CleanedRows[1].line = 2
    /\ TsLT(CleanedRows[1].timestamp, CleanedRows[2].timestamp)

Queries == {"by_ticker", "by_trader", "by_timerange"}

(* C6: a stage invoked before its prerequisite (clean with no raw table,   *)
(* aggregate or a query with no cleaned table) fails with InvalidState and *)
(* leaves raw table, cleaned table and analytics as they were.             *)
C6_OutOfOrderRejected ==
    [][last' # last =>
          /\ (last'.op = "clean" /\ df.none) =>
                 (last'.err = "InvalidState" /\ UNCHANGED <<df, cleaned_df, analytics>>)
          /\ (last'.op \in Queries \cup {"aggregate"} /\ cleaned_df.none) =>
                 (last'.err = "InvalidState" /\ UNCHANGED <<df, cleaned_df, analytics>>)]_vars

(* C6 witness: with a raw table loaded but not cleaned, a time-range query *)
(* was rejected.                                                           *)
C6_Witness ==
    /\ last.op = "by_timerange"
    /\ last.err = "InvalidState"
    /\ ~df.none
    /\ cleaned_df.none

(* C7: a load that fails with SchemaError leaves the raw table as it was. *)
C7_NoPartialLoad ==
    [][(last' # last /\ last'.op = "load" /\ last'.err = "SchemaError") => df' = df]_vars

(* C8: a held cleaned table is the cleaning of the held raw table, and a   *)
(* held analytics bundle is the aggregation of the held cleaned table.     *)
C8_DerivedNeverStale ==
    /\ ~cleaned_df.none =>
           /\ ~df.none
           /\ MissingCols(df) = <<>>
           /\ cleaned_df = CleanOf(df, tie)
    /\ ~analytics.empty =>
           /\ ~cleaned_df.none
           /\ analytics = AnalyticsOf(cleaned_df, tie)

(* C9: on a raw table with the six columns clean returns whatever the rows *)
(* hold; when no row is valid the cleaned table is empty, and aggregate on *)
(* an empty cleaned table returns 0 transactions, empty mappings and the   *)
(* (NaT, NaT) date range.                                                  *)
C9_CleanNeverRaises ==
    /\ (last.op = "clean" /\ ~df.none /\ MissingCols(df) = <<>>) =>
           /\ last.err = "none"
           /\ (\A j \in 1..Len(df.rows) : ~ValidRaw(df.rows[j])) => CleanedRows = <<>>
    /\ (last.op = "aggregate" /\ ~cleaned_df.none /\ CleanedRows = <<>>) =>
           /\ last.err = "none"
           /\ analytics.total_transactions = 0
           /\ analytics.total_volume = 0
           /\ analytics.volume_by_ticker = <<>>
           /\ analytics.net_position = <<>>
           /\ analytics.trader_activity = <<>>
           /\ analytics.daily_volume = <<>>
           /\ analytics.action_counts = <<>>
           /\ analytics.date_range = <<NaT, NaT>>

(* C9 witness: two rows were loaded, clean rejected both, and aggregate    *)
(* returned the empty bundle.                                              *)
C9_Witness ==
    /\ last.op = "aggregate"
    /\ last.err = "none"
    /\ Len(df.rows) = 2
    /\ CleanedRows = <<>>
    /\ analytics.total_transactions = 0

C11_DropOrderIrrelevant ==
    JustCleaned =>
        LET conv == ConvertRows(df.rows)
            kept == DropInOrder(conv, <<"missing", "action", "nonpositive">>)
        IN /\ \A o \in DropOrders : DropInOrder(conv, o) = kept
           /\ CleanedRows = ResetIndex(SortByTimestamp(AddDerived(kept), tie))
           /\ {CleanedRows[i].line : i \in 1..Len(CleanedRows)}
                  = {j \in 1..Len(conv) :
                        HasCritical(conv[j]) /\ ValidAction(conv[j]) /\ ~NonPositive(conv[j])}

(* C11 witness: a clean kept one record and dropped the other for a        *)
(* missing number, which the non-positive test alone lets through.         *)
C11_Witness ==
    /\ JustCleaned
    /\ Len(df.rows) = 2
    /\ Len(CleanedRows) = 1
    /\ \E j \in 1..2 : /\ ~HasCritical(ConvertRow(df.rows[j]))
                       /\ ~NonPositive(ConvertRow(df.rows[j]))
                       /\ ValidAction(ConvertRow(df.rows[j]))

(* The state right after a calculate_analytics call that returned:         *)
(* cleaned_df is its input and analytics its result.                       *)
JustAggregated == last.op = "aggregate" /\ last.err = "none"

Tickers == {CleanedRows[i].ticker.s : i \in 1..Len(CleanedRows)}

Traders == {CleanedRows[i].trader_id.s : i \in 1..Len(CleanedRows)}

RECURSIVE SumSeq(_)
SumSeq(s) == IF s = <<>> THEN 0 ELSE Head(s) + SumSeq(Tail(s))

(* The quantities of a ticker's rows of one action, and the total_value of *)
(* the rows whose column col holds k, as sequences in table order.         *)
QuantitiesOf(k, act) ==
    LET rows == SelectSeq(CleanedRows, LAMBDA r : r.ticker.s = k /\ r.action.s = act)
    IN [i \in 1..Len(rows) |-> rows[i].quantity.v]

ValuesOf(col, k) ==
    LET rows == SelectSeq(CleanedRows, LAMBDA r : r[col].s = k)
    IN [i \in 1..Len(rows) |-> rows[i].total_value.v]

(* C12: net_position holds, for every ticker of the cleaned table, exactly *)
(* one entry, equal to the BUY quantities minus the SELL quantities of the *)
(* ticker, a side without rows counting as zero.                           *)
C12_NetPosition ==
    JustAggregated =>
        \A k \in Tickers :
            /\ Cardinality({i \in 1..Len(analytics.net_position) :
                                analytics.net_position[i].key = k}) = 1
            /\ \A i \in 1..Len(analytics.net_position) :
                  analytics.net_position[i].key = k =>
                      analytics.net_position[i].val
                          = SumSeq(QuantitiesOf(k, BUY)) - SumSeq(QuantitiesOf(k, SELL))

(* C12 witness: of two tickers one was only sold and has a negative net    *)
(* position, the other was only bought.                                    *)
C12_Witness ==
    /\ JustAggregated
    /\ \E i \in 1..Len(analytics.net_position) :
          /\ analytics.net_position[i].val < 0
          /\ QuantitiesOf(analytics.net_position[i].key, BUY) = <<>>
    /\ \E k \in Tickers : QuantitiesOf(k, SELL) = <<>>
    /\ Cardinality(Tickers) = 2

(* C13: volume_by_ticker maps every ticker of the cleaned table to the sum *)
(* of total_value over its rows, and its values add up to total_volume.    *)
C13_VolumeByTicker ==
    JustAggregated =>
        /\ \A k \in Tickers :
              /\ Cardinality({i \in 1..Len(analytics.volume_by_ticker) :
                                  analytics.volume_by_ticker[i].key = k}) = 1
              /\ \A i \in 1..Len(analytics.volume_by_ticker) :
                    analytics.volume_by_ticker[i].key = k =>
                        analytics.volume_by_ticker[i].val = SumSeq(ValuesOf("ticker", k))
        /\ SumSeq(Vals(analytics.volume_by_ticker)) = analytics.total_volume

(* C13 witness: three rows over two tickers were aggregated. *)
C13_Witness ==
    /\ JustAggregated
    /\ Len(CleanedRows) = 3
    /\ Len(analytics.volume_by_ticker) = 2
    /\ analytics.volume_by_ticker[1].val > analytics.volume_by_ticker[2].val
    /\ analytics.total_volume > 0

(* C14: the counts of action_counts add up to total_transactions, which is *)
(* the number of rows of the cleaned table.                                *)
C14_ActionCounts ==
    JustAggregated =>
        /\ SumSeq(Vals(analytics.action_counts)) = analytics.total_transactions
        /\ analytics.total_transactions = Len(CleanedRows)

(* C14 witness: two BUY rows and one SELL row were counted. *)
C14_Witness ==
    /\ JustAggregated
    /\ Len(CleanedRows) = 3
    /\ Len(analytics.action_counts) = 2
    /\ analytics.action_counts[1] = [key |-> BUY, val |-> 2]

Descending(s) == \A i \in 1..Len(s), j \in 1..Len(s) : i < j => s[i] >= s[j]

(* C15: volume_by_ticker and net_position are descending by value,         *)
(* trader_activity by transaction_count, action_counts by count, and       *)
(* daily_volume is ascending by date.                                      *)
C15_MappingsOrdered ==
    ~analytics.empty =>
        /\ Descending(Vals(analytics.volume_by_ticker))
        /\ Descending(Vals(analytics.net_position))
        /\ Descending(Counts(analytics.trader_activity))
        /\ Descending(Vals(analytics.action_counts))
        /\ \A i \in 1..Len(analytics.daily_volume), j \in 1..Len(analytics.daily_volume) :
              i < j => analytics.daily_volume[i].key < analytics.daily_volume[j].key

(* C15 witness: the trader with more rows is second in key order and first *)
(* in trader_activity, and two days were traded.                           *)
C15_Witness ==
    /\ JustAggregated
    /\ Len(analytics.trader_activity) = 2
    /\ analytics.trader_activity[1].transaction_count = 2
    /\ TextLT(analytics.trader_activity[2].key, analytics.trader_activity[1].key)
    /\ Len(analytics.daily_volume) = 2

(* C16: trader_activity holds, for every trader_id of the cleaned table,   *)
(* exactly one entry; its transaction_count is the number of the trader's  *)
(* rows and its total_value the sum of their total_value.                  *)
C16_TraderActivity ==
    JustAggregated =>
        \A k \in Traders :
            /\ Cardinality({i \in 1..Len(analytics.trader_activity) :
                                analytics.trader_activity[i].key = k}) = 1
            /\ \A i \in 1..Len(analytics.trader_activity) :
                  analytics.trader_activity[i].key = k =>
                      /\ analytics.trader_activity[i].transaction_count
                             = Len(ValuesOf("trader_id", k))
                      /\ analytics.trader_activity[i].total_value
                             = SumSeq(ValuesOf("trader_id", k))

(* C16 witness: a trader has two rows with one and the same timestamp. *)
C16_Witness ==
    /\ JustAggregated
    /\ Len(CleanedRows) = 3
    /\ Len(analytics.trader_activity) = 2
    /\ \E i \in 1..2, j \in 2..3 :
          /\ i < j
          /\ CleanedRows[i].trader_id = CleanedRows[j].trader_id
          /\ CleanedRows[i].timestamp = CleanedRows[j].timestamp

KeyColumn(op) == IF op = "by_ticker" THEN "ticker" ELSE "trader_id"

(* C17: a by-ticker or by-trader lookup on a cleaned controller returns,   *)
(* for any key, exactly the rows of the cleaned table whose ticker (resp.  *)
(* trader_id) is the trimmed, upper-cased key, in table order, without an  *)
(* error even when no row matches; two lookups in a row whose keys trim    *)
(* and upper-case to the same text return the same result.                 *)
C17_KeyLookup ==
    [][(last'.op \in {"by_ticker", "by_trader"} /\ ~cleaned_df.none) =>
          LET col == KeyColumn(last'.op)
              key == StrUpper(StrStrip(last'.key))
              hits == {i \in 1..Len(CleanedRows) : CleanedRows[i][col].s = key}
          IN /\ last'.err = "none"
             /\ Len(last'.ret) = Cardinality(hits)
             /\ \A n \in 1..Len(last'.ret) :
                   /\ last'.ret[n].idx + 1 \in hits
                   /\ last'.ret[n] = CleanedRows[last'.ret[n].idx + 1]
                   /\ \A m \in 1..Len(last'.ret) :
                         m < n => last'.ret[m].idx < last'.ret[n].idx
             /\ (/\ last.op = last'.op
                 /\ last.err = "none"
                 /\ StrUpper(StrStrip(last.key)) = key) => last'.ret = last.ret]_vars

(* C17 witness: the key " a" found the rows of ticker A, and not all rows. *)
C17_Witness ==
    /\ last.op = "by_ticker"
    /\ last.key = <<" ", "a">>
    /\ Len(last.ret) = 1
    /\ last.ret[1].ticker.s = <<"A">>
    /\ Len(CleanedRows) = 2

(* A well-formed bound: a date and time, or a date alone (its midnight). *)
Parsable(b) == b.k \in {"exact", "dateonly"}

(* C18: a by-time-range lookup with well-formed bounds returns exactly the *)
(* rows of the cleaned table with start <= timestamp <= end, both bounds   *)
(* included, in table order.                                               *)
C18_RangeInclusive ==
    (/\ last.op = "by_timerange"
     /\ ~cleaned_df.none
     /\ Parsable(last.start) /\ Parsable(last.end)) =>
        LET inside == {i \in 1..Len(CleanedRows) :
                          /\ ~TsLT(CleanedRows[i].timestamp, last.start)
                          /\ ~TsLT(last.end, CleanedRows[i].timestamp)}
        IN /\ last.err = "none"
           /\ Len(last.ret) = Cardinality(inside)
           /\ \A n \in 1..Len(last.ret) :
                 /\ last.ret[n].idx + 1 \in inside
                 /\ last.ret[n] = CleanedRows[last.ret[n].idx + 1]
                 /\ \A m \in 1..Len(last.ret) :
                       m < n => last.ret[m].idx < last.ret[n].idx

(* C18 witness: the lookup returned a row stamped exactly at its start and *)
(* a row stamped exactly at its end.                                       *)
C18_Witness ==
    /\ last.op = "by_timerange"
    /\ last.err = "none"
    /\ Len(last.ret) = 2
    /\ last.start = TsDateOnly(1)
    /\ last.ret[1].timestamp = Ts(1, 0)
    /\ last.end = TsExact(1, 1)
    /\ last.ret[2].timestamp = Ts(1, 1)

(* C19: a by-time-range lookup on a cleaned controller with a start or end *)
(* that is not a date or a date and time fails with ParseError and leaves  *)
(* raw table, cleaned table and analytics as they were.                    *)
C19_BadBoundRaises ==
    [][(/\ last' # last
        /\ last'.op = "by_timerange"
        /\ ~cleaned_df.none
        /\ (~Parsable(last'.start) \/ ~Parsable(last'.end))) =>
           /\ last'.err = "ParseError"
           /\ UNCHANGED <<df, cleaned_df, analytics>>]_vars

(* C20: aggregate, the three lookups and a caller's write to a returned    *)
(* result leave the cleaned table as it was.                               *)
C20_CleanedTableUntouched ==
    [][(last' # last /\ last'.op \in Queries \cup {"aggregate", "edit_result"}) =>
           cleaned_df' = cleaned_df]_vars

(* C20 witness: the caller zeroed the quantity of the first returned row   *)
(* and the cleaned table still holds the row with its quantity.            *)
C20_Witness ==
    /\ last.op = "edit_result"
    /\ last.ret[1].quantity = Num(0)
    /\ CleanedRows[last.ret[1].idx + 1].quantity = Num(2)
    /\ ~analytics.empty

(* C21: a held raw table stays held, a held cleaned table stays held, a    *)
(* held analytics bundle stays held, whatever call is made and whether it  *)
(* fails; a held bundle comes with a held cleaned table and a held cleaned *)
(* table with a held raw table.                                            *)
C21_PhaseForward ==
    [][/\ ~df.none => ~df'.none
       /\ ~cleaned_df.none => ~cleaned_df'.none
       /\ ~analytics.empty => ~analytics'.empty
       /\ ~analytics'.empty => ~cleaned_df'.none
       /\ ~cleaned_df'.none => ~df'.none]_vars

(* C21 witness: on an analyzed controller a reload failed validation and   *)
(* all three tables are still held.                                        *)
C21_Witness ==
    /\ last.op = "load"
    /\ last.err = "SchemaError"
    /\ ~df.none /\ ~cleaned_df.none /\ ~analytics.empty

(* The place of the first row of the cleaned table with the given action. *)
FirstRowOf(act) ==
    CHOOSE i \in 1..Len(CleanedRows) :
        /\ CleanedRows[i].action.s = act
        /\ \A j \in 1..(i - 1) : CleanedRows[j].action.s # act

(* C26: in volume_by_ticker, net_position, trader_activity and             *)
(* action_counts, entries with equal sort values keep the order the        *)
(* grouping gave them: ascending key for the three groupby outputs, first  *)
(* appearance in the table for action_counts.                              *)
C26_TiesKeepGroupOrder ==
    JustAggregated =>
        /\ \A i \in 1..Len(analytics.volume_by_ticker),
              j \in 1..Len(analytics.volume_by_ticker) :
              (i < j /\ analytics.volume_by_ticker[i].val = analytics.volume_by_ticker[j].val)
                  => TextLT(analytics.volume_by_ticker[i].key, analytics.volume_by_ticker[j].key)
        /\ \A i \in 1..Len(analytics.net_position), j \in 1..Len(analytics.net_position) :
              (i < j /\ analytics.net_position[i].val = analytics.net_position[j].val)
                  => TextLT(analytics.net_position[i].key, analytics.net_position[j].key)
        /\ \A i \in 1..Len(analytics.trader_activity), j \in 1..Len(analytics.trader_activity) :
              (/\ i < j
               /\ analytics.trader_activity[i].transaction_count
                      = analytics.trader_activity[j].transaction_count)
                  => TextLT(analytics.trader_activity[i].key, analytics.trader_activity[j].key)
        /\ \A i \in 1..Len(analytics.action_counts), j \in 1..Len(analytics.action_counts) :
              (i < j /\ analytics.action_counts[i].val = analytics.action_counts[j].val)
                  => FirstRowOf(analytics.action_counts[i].key)
                         < FirstRowOf(analytics.action_counts[j].key)

(* C27: clean leaves the raw table as it was. *)
C27_CleanKeepsRaw ==
    [][last'.op = "clean" => df' = df]_vars

(* C27 witness: clean ran twice on a raw table whose action cell reads     *)
(* " buy ", and the cleaned table holds BUY.                               *)
C27_Witness ==
    /\ JustCleaned
    /\ last.again
    /\ Len(df.rows) = 1
    /\ df.rows[1].action.s = <<" ", "b", "u", "y", " ">>
    /\ Len(CleanedRows) = 1
    /\ CleanedRows[1].action.s = BUY

(* C28: with the end bound given as a date D alone, a row stamped on D     *)
(* after 00:00:00 is not returned, and a row stamped D 00:00:00 (and not   *)
(* before the start) is.                                                   *)
C28_DateOnlyIsMidnight ==
    (/\ last.op = "by_timerange"
     /\ last.err = "none"
     /\ last.end.k = "dateonly"
     /\ Parsable(last.start)) =>
        \A i \in 1..Len(CleanedRows) :
            LET ts == CleanedRows[i].timestamp
                returned == \E n \in 1..Len(last.ret) : last.ret[n].idx = CleanedRows[i].idx
            IN /\ (ts.d = last.end.d /\ ts.t > 0) => ~returned
               /\ (ts.d = last.end.d /\ ts.t = 0 /\ ~TsLT(ts, last.start)) => returned

(* C28 witness: of two rows of day 1, at 00:00:00 and later, the lookup up *)
(* to the date of day 1 returned the first only.                           *)
C28_Witness ==
    /\ last.op = "by_timerange"
    /\ last.err = "none"
    /\ last.start = TsDateOnly(1)
    /\ last.end = TsDateOnly(1)
    /\ Len(CleanedRows) = 2
    /\ CleanedRows[2].timestamp = Ts(1, 1)
    /\ Len(last.ret) = 1
    /\ last.ret[1].timestamp = Ts(1, 0)

(* C29: get_summary_stats on a controller that is cleaned but holds no     *)
(* bundle aggregates and returns the summary that aggregate followed by    *)
(* get_summary_stats returns; before clean it fails with the not-cleaned   *)
(* error and changes nothing; on an empty cleaned table the top ticker and *)
(* the most active trader read "N/A".                                      *)
C29_SummaryAggregates ==
    [][(last'.op = "summary" /\ last' # last) =>
          /\ (cleaned_df.none /\ analytics.empty) =>
                 (last'.err = "InvalidState" /\ UNCHANGED <<df, cleaned_df, analytics>>)
          /\ (~cleaned_df.none /\ analytics.empty) =>
                 /\ last'.err = "none"
                 /\ analytics' = AnalyticsOf(cleaned_df, tie)
                 /\ last'.ret = <<SummaryOf(AnalyticsOf(cleaned_df, tie))>>
                 /\ last'.ret[1].total_transactions = Len(CleanedRows)
                 /\ UNCHANGED <<df, cleaned_df>>
          /\ (~cleaned_df.none /\ CleanedRows = <<>>) =>
                 /\ last'.ret[1].top_ticker_by_volume = <<"N", "/", "A">>
                 /\ last'.ret[1].most_active_trader = <<"N", "/", "A">>]_vars

(* C29 witness: the summary of an empty cleaned table was returned. *)
C29_Witness ==
    /\ last.op = "summary"
    /\ last.err = "none"
    /\ Len(df.rows) > 0
    /\ CleanedRows = <<>>
    /\ last.ret[1].top_ticker_by_volume = <<"N", "/", "A">>
    /\ ~analytics.empty

(* C30: the 'Most active trader' line of analytics_summary_for_prompt      *)
(* names the first trader of trader_activity with that trader's            *)
(* transaction_count as tx and summed total_value as notional.             *)
C30_MostActiveTraderLine ==
    (app.fn = "analytics_summary_for_prompt" /\ app.most_active_trader # <<>>) =>
        /\ app.most_active_trader[1].trader_id = analytics.trader_activity[1].key
        /\ app.most_active_trader[1].tx = analytics.trader_activity[1].transaction_count
        /\ app.most_active_trader[1].notional.v = analytics.trader_activity[1].total_value

(* What a query returns when it runs alone against the table. *)
Alone(q, frame) ==
    IF q.op = "by_timerange"
    THEN IF ToDatetimeLenient(q.start) = ParseFail \/ ToDatetimeLenient(q.end) = ParseFail
         THEN [err |-> "ParseError", ret |-> <<>>]
         ELSE [err |-> "none",
               ret |-> RowsBetween(frame, ToDatetimeLenient(q.start),
                                   ToDatetimeLenient(q.end))]
    ELSE [err |-> "none", ret |-> RowsMatching(frame, QueryColumn(q), NormKey(q.key))]

(* C22: readers that query an Analyzed controller concurrently, no stage   *)
(* running again, each get what their query returns when run alone, in     *)
(* every interleaving, and the cleaned table and the bundle stay as the    *)
(* stages left them.                                                       *)
C22_ReadersAgree ==
    ~analytics.empty =>
        /\ cleaned_df = CleanOf(df, tie)
        /\ analytics = AnalyticsOf(CleanOf(df, tie), tie)
        /\ \A r \in ReaderIds :
              readers[r].pc = "done" =>
                 [err |-> readers[r].err, ret |-> readers[r].ret]
                    = Alone(readers[r].q, CleanOf(df, tie))

(* C22 witness: one reader has its result, a proper non-empty part of the  *)
(* table, while the other is between building its mask and selecting.      *)
C22_Witness ==
    /\ readers["r1"].pc = "masked"
    /\ readers["r2"].pc = "done"
    /\ readers["r2"].err = "none"
    /\ readers["r2"].ret # <<>>
    /\ Len(readers["r2"].ret) < Len(cleaned_df.rows)
    /\ readers["r1"].q # readers["r2"].q

(* C24: _call_llm_api never raises; its result is the provider's response  *)
(* text exactly when the provider is anthropic or openai, a key is present *)
(* and the call returns, and the local fallback text in every other case   *)
(* (provider local, no key, SDK import error, any exception of the call).  *)
C24_ProviderNeverRaises ==
    app.fn = "_call_llm_api" =>
        /\ app.err = "none"
        /\ IF /\ app.provider \in {"anthropic", "openai"}
              /\ app.key = "key"
              /\ app.outcome \in {"text", "empty_text", "no_content"}
           THEN /\ app.result.src = "provider"
                /\ app.outcome = "text" => app.result.text = "response"
                /\ app.outcome # "text" => app.result.text = ""
           ELSE app.result = LocalInsights
        /\ app.called = (app.provider # "local" /\ app.key = "key")

(* C24 witness: openai with a key, the call raised, the fallback came back. *)
C24_Witness ==
    /\ app.fn = "_call_llm_api"
    /\ app.provider = "openai"
    /\ app.key = "key"
    /\ app.outcome = "Exception"
    /\ app.called
    /\ app.result = LocalInsights
    /\ app.err = "none"

(* C25: generate_custom_insight raises ValueError on an empty or           *)
(* whitespace-only question before the CSV is processed and before a       *)
(* generator is constructed, whatever the CSV path and the provider.       *)
C25_BlankQuestionRejectedFirst ==
    (app.fn = "generate_custom_insight" /\ StrStrip(app.question) = <<>>) =>
        /\ app.err = "ValueError"
        /\ app.steps = <<>>

(* C25 witness: a whitespace-only question with a missing CSV and an       *)
(* unknown provider was rejected.                                          *)
C25_Witness ==
    /\ app.fn = "generate_custom_insight"
    /\ app.question = <<" ", " ">>
    /\ app.csv = "missing"
    /\ app.provider = "bogus"
    /\ app.err = "ValueError"
    /\ app.steps = <<>>

(* Every value of a serialized tree, and the value it holds under a key. *)
RECURSIVE Nodes(_)
Nodes(n) ==
    {n} \cup
    (IF n.py = "dict" THEN UNION {Nodes(e.val) : e \in n.entries}
     ELSE IF n.py \in {"list", "tuple"}
     THEN UNION {Nodes(n.items[i]) : i \in 1..Len(n.items)}
     ELSE {})

Under(tree, name) == (CHOOSE e \in tree.entries : e.key = PyStr(<<name>>)).val

IsIso8601(x) == x.py = "str" /\ x.form \in {"YYYY-MM-DDTHH:MM:SS", "YYYY-MM-DD"}

(* C23: what export_analytics_json and analytics_to_jsonable make of the   *)
(* bundle of any file has only text keys, every date and timestamp as      *)
(* ISO-8601 text, and no floating NaN or Infinity (null in their place).   *)
C23_SerializedBundle ==
    app.fn \in {"export_analytics_json", "analytics_to_jsonable"} =>
        /\ \A n \in Nodes(app.out) :
              /\ n.py = "dict" => \A e \in n.entries : e.key.py = "str"
              /\ n.py \notin {"Timestamp", "NaT", "date"}
              /\ ~(n.py = "float" /\ n.k \in {"nan", "inf", "ninf"})
        /\ \A i \in {1, 2} : IsIso8601(Under(app.out, "date_range").items[i])
        /\ \A e \in Under(app.out, "daily_volume").entries : IsIso8601(e.key)

====
